---- MODULE Spec2Model ----
(***************************************************************************)
(* A model of iview (src/main.go): flag validation, the expansion of the   *)
(* arguments into a list of image files, the concurrent decoding of the    *)
(* files (one goroutine and one unbuffered channel per file), the creation *)
(* of the window and the event loop that tracks the current image index,   *)
(* the pan offset and the off-screen buffer.                               *)
(*                                                                         *)
(* Go slices are 0-based; the sequences below are 1-based, except for the  *)
(* image index i of the event loop, which keeps the code's 0-based values  *)
(* (imgs[i] of the code is imgAt(imgs, i), that is imgs[i + 1], here).     *)
(***************************************************************************)
EXTENDS Integers, Sequences, FiniteSets, TLC

\* ------------------------------------------------------------------ bounds

\* the largest number of command line arguments
MaxArgs == 2

\* the largest number of images the event loop is entered with
MaxImgs == 3
\* the pan offset stays within MaxPan pixels of the origin, both axes summed
MaxPan == 1
\* the largest number of paint events sent and not yet handled
MaxQueue == 1

\* ---------------------------------------------------------- program constants

\* default of -width and -height
DefaultSize == 600
\* default of -increment
DefaultIncrement == 20

\* ------------------------------------------------------- the file system
\* File names are sequences of characters, paths are sequences of names.

NameA == <<"a", ".", "p">>
NameB == <<"b", ".", "g">>
NameC == <<"c", ".", "p">>
NameD == <<"d">>
NameN == <<"n">>
NameR == <<"r">>
NameGone == <<"x", ".", "p">>

PathA == <<NameA>>
PathN == <<NameN>>
PathD == <<NameD>>
PathGone == <<NameGone>>
PathDB == <<NameD, NameB>>
PathDC == <<NameD, NameC>>
PathDR == <<NameD, NameR>>

\* what can be given on the command line
ArgPaths == {PathA, PathN, PathD, PathGone}

\* os.Stat: the path is missing ("err"), a directory or a regular file
Stat(p) ==
  IF p = PathGone THEN "err"
  ELSE IF p = PathD THEN "dir"
  ELSE "file"

\* (*os.File).Readdirnames(0) of the directory, in directory order; dirImages
\* drops the errors of os.Open and Readdirnames and goes on with the names it
\* got, none for a directory that cannot be read
Readdirnames(dir) ==
  IF dir = PathD THEN <<NameB, NameR, NameC>> ELSE <<>>

\* os.Open of a file: d/c.p is not readable
OpenOk(p) == p \in {PathA, PathN, PathDB, PathDR}

\* image.Decode of an opened file: the decoded image, or "err"
Decode(p) ==
  IF p = PathA THEN "imgA"
  ELSE IF p = PathDB THEN "imgB"
  ELSE "err"

Images == {"imgA", "imgB"}

Pt(x, y) == [X |-> x, Y |-> y]
ZP == Pt(0, 0)

\* img.Bounds(): imgB is a frame placed off the origin
Bounds(img) ==
  IF img = "imgA" THEN [Min |-> Pt(0, 0), Max |-> Pt(2, 1)]
  ELSE [Min |-> Pt(1, 1), Max |-> Pt(2, 3)]

Dx(r) == r.Max.X - r.Min.X
Dy(r) == r.Max.Y - r.Min.Y

\* ------------------------------------------------------- pure functions

\* index of the last "." of name, 0 when there is none
LastDot(name) ==
  LET dots == {k \in 1..Len(name) : name[k] = "."}
  IN IF dots = {} THEN 0 ELSE CHOOSE k \in dots : \A j \in dots : j <= k

\* filepath.Ext: the suffix of the name that starts at its last dot
Ext(name) ==
  IF LastDot(name) = 0 THEN <<>> ELSE SubSeq(name, LastDot(name), Len(name))

\* filepath.Join(dir, f)
Join(dir, f) == Append(dir, f)

\* basename(fName): the last element of the path
basename(p) == p[Len(p)]

\* dirImages without its filter
HasExtAny(f) == TRUE

\* the filter of dirImages
HasExt(f) == Ext(f) # <<>>

RECURSIVE dirImagesFrom(_, _)
dirImagesFrom(dir, fs) ==
  IF fs = <<>> THEN <<>>
  ELSE (IF HasExt(Head(fs)) THEN <<Join(dir, Head(fs))>> ELSE <<>>)
       \o dirImagesFrom(dir, Tail(fs))

dirImages(dir) == dirImagesFrom(dir, Readdirnames(dir))

RECURSIVE findFiles(_)
findFiles(as) ==
  IF as = <<>> THEN <<>>
  ELSE (IF Stat(Head(as)) = "err" THEN <<>>
        ELSE IF Stat(Head(as)) = "dir" THEN dirImages(Head(as))
        ELSE <<Head(as)>>)
       \o findFiles(Tail(as))

\* the messages findFiles logs
findFilesLog(as) ==
  {<<"Can't access", as[k]>> : k \in {j \in 1..Len(as) : Stat(as[j]) = "err"}}

\* ------------------------------------------------------------------ state

VARIABLES
  flagWidth, flagHeight,  \* -width, -height
  flagAutoResize,         \* -auto-resize
  flagStepIncrement,      \* -increment
  flagProfile,            \* -profile: "" or the name of the profile file
  args,                   \* flag.Args()
  pc,                     \* where the main goroutine is
  exitCode,               \* -1 while the process runs, else its exit status
  logged,                 \* what was written to stderr
  profiling,              \* a CPU profile is running
  files,                  \* imageFiles, the result of findFiles
  spawned,                \* decodeImages: goroutines started so far
  imgChans,               \* decodeImages: the channels, nil until made
  tasks,                  \* decodeImages: where each goroutine is
  chanOps,                \* the sends and closes done, by goroutine and channel
  collected,              \* decodeImages: channels received from so far
  names, imgs,            \* the decoded images and their names
  win,                    \* w.w: the window, its size and its releases
  buf,                    \* w.b: the buffer (or nil) and its releases
  liveBufs,               \* buffers allocated and not released
  orig, pan, mouse,       \* w.orig, w.pan, w.mouse
  i,                      \* index of the image to display
  pending,                \* paint events sent by the loop, not yet handled
  shown,                  \* the image last passed to display, or "none"
  ops                     \* the window system calls of the last step

flagVars == <<flagWidth, flagHeight, flagAutoResize, flagStepIncrement,
              flagProfile, args>>
procVars == <<pc, exitCode, logged, profiling>>
decodeVars == <<files, spawned, imgChans, tasks, chanOps, collected,
                names, imgs>>
winVars == <<win, buf, liveBufs, orig, pan, mouse, i, pending, shown, ops>>
vars == <<flagVars, procVars, decodeVars, winVars>>

\* a nil channel, a channel made by make(chan tmpImage, 0)
NilChan == [made |-> FALSE, closed |-> FALSE]
NewChan == [made |-> TRUE, closed |-> FALSE]

\* no window, a nil screen.Buffer
NoWindow == [made |-> FALSE, size |-> ZP, released |-> 0]
NilBuffer == [made |-> FALSE, released |-> 0]

RECURSIVE SeqsUpTo(_, _)
SeqsUpTo(S, n) ==
  IF n = 0 THEN {<<>>}
  ELSE LET shorter == SeqsUpTo(S, n - 1)
       IN shorter \cup {Append(q, x) : q \in shorter, x \in S}

\* the state at the start of init(), after flag.Parse
Init ==
  /\ flagWidth \in {0, DefaultSize}
  /\ flagHeight \in {0, DefaultSize}
  /\ flagAutoResize \in BOOLEAN
  /\ flagStepIncrement = DefaultIncrement
  /\ flagProfile \in {"", "cpu.prof"}
  /\ args \in SeqsUpTo(ArgPaths, MaxArgs)
  /\ pc = "init"
  /\ exitCode = -1
  /\ logged = {}
  /\ profiling = FALSE
  /\ files = <<>>
  /\ spawned = 0
  /\ imgChans = <<>>
  /\ tasks = <<>>
  /\ chanOps = {}
  /\ collected = 0
  /\ names = <<>>
  /\ imgs = <<>>
  /\ win = NoWindow
  /\ buf = NilBuffer
  /\ liveBufs = 0
  /\ orig = ZP
  /\ pan = FALSE
  /\ mouse = ZP
  /\ i = 0
  /\ pending = 0
  /\ shown = "none"
  /\ ops = <<>>

\* ---------------------------------------------------------------- startup

\* log.Fatal: the message, then os.Exit(1); deferred calls do not run
Fatal(msg) ==
  /\ logged' = logged \cup {msg}
  /\ exitCode' = 1
  /\ pc' = "exit"

\* usage(): flag.Usage output, then os.Exit(1)
usage(msgs) ==
  /\ logged' = logged \cup msgs \cup {<<"Usage">>}
  /\ exitCode' = 1
  /\ pc' = "exit"

\* init() rejecting the size only when both values are zero
SizeInvalidBoth(w, h) == w = 0 /\ h = 0

\* the check of init() on the flag values
SizeInvalid(w, h) == w = 0 \/ h = 0

\* init(), after flag.Parse
InitFlags ==
  /\ pc = "init"
  /\ IF SizeInvalid(flagWidth, flagHeight)
     THEN Fatal(<<"The width and height must be non-zero values.">>)
     ELSE /\ pc' = "profile"
          /\ UNCHANGED <<exitCode, logged>>
  /\ UNCHANGED <<flagVars, profiling, decodeVars, winVars>>

\* main(): start the CPU profile; os.Create may fail
StartProfile ==
  /\ pc = "profile"
  /\ IF flagProfile # ""
     THEN \E created \in BOOLEAN :
            IF created
            THEN /\ profiling' = TRUE
                 /\ pc' = "nargs"
                 /\ UNCHANGED <<exitCode, logged>>
            ELSE /\ Fatal(<<"os.Create", flagProfile>>)
                 /\ UNCHANGED profiling
     ELSE /\ pc' = "nargs"
          /\ UNCHANGED <<exitCode, logged, profiling>>
  /\ UNCHANGED <<flagVars, decodeVars, winVars>>

\* main(): no argument given
CheckArgs ==
  /\ pc = "nargs"
  /\ IF Len(args) = 0
     THEN usage({<<"No images specified.">>})
     ELSE /\ pc' = "find"
          /\ UNCHANGED <<exitCode, logged>>
  /\ UNCHANGED <<flagVars, profiling, decodeVars, winVars>>

\* main(): findFiles(flag.Args()), and the first statement of decodeImages
FindFiles ==
  /\ pc = "find"
  /\ files' = findFiles(args)
  /\ logged' = logged \cup findFilesLog(args)
  /\ imgChans' = [k \in 1..Len(findFiles(args)) |-> NilChan]
  /\ tasks' = [k \in 1..Len(findFiles(args)) |-> "none"]
  /\ pc' = "spawn"
  /\ UNCHANGED <<flagVars, exitCode, profiling, spawned, chanOps, collected,
                 names, imgs, winVars>>

\* ---------------------------------------------------------- decodeImages

\* a Go panic in any goroutine ends the process with status 2
Panic(msg) ==
  /\ logged' = logged \cup {<<"panic", msg>>}
  /\ exitCode' = 2
  /\ pc' = "exit"

\* every goroutine reporting on the first channel
TaskChanShared(k) == 1

\* the channel goroutine k reports on: imgChans[i], i being its own parameter
TaskChan(k) == k

\* goroutine s is blocked in a send on channel c
Sending(s, c) == tasks[s] = "send" /\ TaskChan(s) = c

\* a goroutine that returns on failure without closing its channel
CloseByForget(k, c, msg) ==
  /\ tasks' = [tasks EXCEPT ![k] = "done"]
  /\ logged' = logged \cup {msg}
  /\ UNCHANGED <<imgChans, chanOps, pc, exitCode>>

\* close(imgChans[c]) by goroutine k, with what it logs first: closing a nil
\* or closed channel panics, and so does a send blocked on the channel
CloseBy(k, c, msg) ==
  IF \/ ~imgChans[c].made
     \/ imgChans[c].closed
     \/ \E s \in 1..Len(tasks) : Sending(s, c)
  THEN /\ Panic("close")
       /\ UNCHANGED <<imgChans, tasks, chanOps>>
  ELSE /\ imgChans' = [imgChans EXCEPT ![c].closed = TRUE]
       /\ tasks' = [tasks EXCEPT ![k] = "done"]
       /\ chanOps' = chanOps \cup {<<k, "close", c>>}
       /\ logged' = logged \cup {msg}
       /\ UNCHANGED <<pc, exitCode>>

\* for i, fName := range imageFiles: make the channel, start the goroutine
Spawn ==
  /\ pc = "spawn"
  /\ spawned < Len(files)
  /\ spawned' = spawned + 1
  /\ imgChans' = [imgChans EXCEPT ![spawned + 1] = NewChan]
  /\ tasks' = [tasks EXCEPT ![spawned + 1] = "open"]
  /\ UNCHANGED <<flagVars, procVars, files, chanOps, collected, names, imgs,
                 winVars>>

\* the end of the range loop
SpawnDone ==
  /\ pc = "spawn"
  /\ spawned = Len(files)
  /\ pc' = "collect"
  /\ UNCHANGED <<flagVars, exitCode, logged, profiling, decodeVars, winVars>>

\* goroutine k: os.Open(fName)
TaskOpen(k) ==
  /\ pc # "exit"
  /\ tasks[k] = "open"
  /\ IF OpenOk(files[k])
     THEN /\ tasks' = [tasks EXCEPT ![k] = "decode"]
          /\ UNCHANGED <<imgChans, chanOps, pc, exitCode, logged>>
     ELSE CloseBy(k, TaskChan(k), <<"open", files[k]>>)
  /\ UNCHANGED <<flagVars, profiling, files, spawned, collected, names, imgs,
                 winVars>>

\* goroutine k: image.Decode(file); on success it goes on to the send
TaskDecode(k) ==
  /\ pc # "exit"
  /\ tasks[k] = "decode"
  /\ IF Decode(files[k]) = "err"
     THEN CloseBy(k, TaskChan(k), <<"Could not decode", files[k]>>)
     ELSE IF ~imgChans[TaskChan(k)].made
     THEN \* a send on a nil channel blocks forever
          /\ tasks' = [tasks EXCEPT ![k] = "stuck"]
          /\ logged' = logged \cup {<<"Decoded", files[k]>>}
          /\ UNCHANGED <<imgChans, chanOps, pc, exitCode>>
     ELSE IF imgChans[TaskChan(k)].closed
     THEN /\ Panic("send on closed channel")
          /\ UNCHANGED <<imgChans, tasks, chanOps>>
     ELSE /\ tasks' = [tasks EXCEPT ![k] = "send"]
          /\ logged' = logged \cup {<<"Decoded", files[k]>>}
          /\ UNCHANGED <<imgChans, chanOps, pc, exitCode>>
  /\ UNCHANGED <<flagVars, profiling, files, spawned, collected, names, imgs,
                 winVars>>

\* a receive that keeps the zero value of a closed channel
KeepReceivedAlways(ok) == TRUE

\* the test of a receive: the value is kept when the channel was not closed
KeepReceived(ok) == ok

\* tmpImg, ok := <-imgChan for the next channel, in input order: a rendezvous
\* with a goroutine blocked in its send, or ok = false from a closed channel
Collect ==
  /\ pc = "collect"
  /\ collected < Len(imgChans)
  /\ LET c == collected + 1 IN
     \/ \E s \in 1..Len(tasks) :
          /\ Sending(s, c)
          /\ tasks' = [tasks EXCEPT ![s] = "done"]
          /\ chanOps' = chanOps \cup {<<s, "send", c>>}
          /\ IF KeepReceived(TRUE)
             THEN /\ names' = Append(names, basename(files[s]))
                  /\ imgs' = Append(imgs, Decode(files[s]))
             ELSE UNCHANGED <<names, imgs>>
     \/ /\ imgChans[c].closed
        /\ IF KeepReceived(FALSE)
           THEN /\ names' = Append(names, <<>>)
                /\ imgs' = Append(imgs, "nil")
           ELSE UNCHANGED <<names, imgs>>
        /\ UNCHANGED <<tasks, chanOps>>
  /\ collected' = collected + 1
  /\ UNCHANGED <<flagVars, procVars, files, spawned, imgChans, winVars>>

\* return names, imgs; main() then calls driver.Main
CollectDone ==
  /\ pc = "collect"
  /\ collected = Len(imgChans)
  /\ pc' = "driver"
  /\ UNCHANGED <<flagVars, exitCode, logged, profiling, decodeVars, winVars>>

\* ------------------------------------------------------ window and buffer

Rect(x0, y0, x1, y1) == [Min |-> Pt(x0, y0), Max |-> Pt(x1, y1)]

\* image.Rectangle.Empty and image.Rectangle.In
Empty(r) == r.Min.X >= r.Max.X \/ r.Min.Y >= r.Max.Y
In(r, t) ==
  \/ Empty(r)
  \/ /\ t.Min.X <= r.Min.X /\ r.Max.X <= t.Max.X
     /\ t.Min.Y <= r.Min.Y /\ r.Max.Y <= t.Max.Y

\* the size of the window at start
winSize ==
  IF flagAutoResize
  THEN Pt(Dx(Bounds(imgs[1])), Dy(Bounds(imgs[1])))
  ELSE Pt(flagWidth, flagHeight)

\* giving up as soon as one file did not decode
NoImagesStrict(is) == Len(is) < Len(files)

\* the test of the driver.Main callback before it opens the window
NoImages(is) == Len(is) = 0

\* the calls of w.display(img) on window w and buffer b with pan offset o;
\* a call that uses the buffer records whether the buffer was released
display(img, w, b, o) ==
  LET rect == Rect(0, 0, w.size.X, w.size.Y)
      sr == IF In(Bounds(img), rect) THEN Bounds(img) ELSE rect
  IN << <<"Fill", rect>>,
        <<"Draw", img, b.released > 0>>,
        <<"Upload", o, sr, b.released > 0>>,
        <<"Publish">> >>

\* the driver.Main callback up to the event loop: the images test, the window
\* size and newWindow; NewWindow and NewBuffer may each fail
OpenWindow ==
  /\ pc = "driver"
  /\ IF NoImages(imgs)
     THEN /\ Fatal(<<"No images specified could be shown. Quitting...">>)
          /\ UNCHANGED <<win, buf, liveBufs>>
     ELSE \E wok, bok \in BOOLEAN :
            IF ~wok
            THEN /\ Fatal(<<"NewWindow">>)
                 /\ UNCHANGED <<win, buf, liveBufs>>
            ELSE IF ~bok
            THEN /\ Fatal(<<"NewBuffer">>)
                 /\ win' = [made |-> TRUE, size |-> winSize, released |-> 0]
                 /\ UNCHANGED <<buf, liveBufs>>
            ELSE /\ win' = [made |-> TRUE, size |-> winSize, released |-> 0]
                 /\ buf' = [made |-> TRUE, released |-> 0]
                 /\ liveBufs' = liveBufs + 1
                 /\ pc' = "display"
                 /\ UNCHANGED <<exitCode, logged>>
  /\ UNCHANGED <<flagVars, profiling, decodeVars, orig, pan, mouse, i,
                 pending, shown, ops>>

\* var i int; w.w.Fill(w.b.Bounds(), ...); w.display(imgs[i])
FirstDisplay ==
  /\ pc = "display"
  /\ i' = 0
  /\ ops' = << <<"Fill", "buffer bounds">> >> \o display(imgs[1], win, buf, orig)
  /\ shown' = imgs[1]
  /\ pc' = "loop"
  /\ UNCHANGED <<flagVars, exitCode, logged, profiling, decodeVars, win, buf,
                 liveBufs, orig, pan, mouse, pending>>

\* newBufferSize without the release of the previous buffer
newBufferSizeLeak(b, live, size, ok) ==
  [buf |-> IF ok THEN [made |-> TRUE, released |-> 0] ELSE NilBuffer,
   live |-> IF ok THEN live + 1 ELSE live,
   ops |-> << <<"NewBuffer", size, ok>> >>]

\* w.newBufferSize(size): release w.b, then allocate its replacement, which
\* succeeds (ok) or leaves w.b nil; the result is the new w.b, the number of
\* live buffers and the calls made
newBufferSize(b, live, size, ok) ==
  LET afterRelease == IF b.made /\ b.released = 0 THEN live - 1 ELSE live
  IN [buf |-> IF ok THEN [made |-> TRUE, released |-> 0] ELSE NilBuffer,
      live |-> IF ok THEN afterRelease + 1 ELSE afterRelease,
      ops |-> << <<"Release", b.released + 1>>, <<"NewBuffer", size, ok>> >>]

\* ------------------------------------------------------------- event loop

\* event coordinates are float32: the values here are in half pixels
HalfPixels == {-1, 3}

\* int(e.X): the conversion truncates toward zero
ToInt(h) == IF h >= 0 THEN h \div 2 ELSE -((-h) \div 2)

MouseDirs == {"Press", "Release", "None", "Step"}
MouseButtons == {"Left", "Right"}
KeyDirs == {"Press", "Release", "None"}
QuitCodes == {"Escape", "Q"}
KeyCodes == {"RightArrow", "LeftArrow", "R", "Z", "H", "J", "K", "L"}

\* sizes the user gives the window
EnvSizes == {Pt(3, 3)}

Abs(n) == IF n < 0 THEN -n ELSE n
InRange(p) == Abs(p.X) + Abs(p.Y) <= MaxPan

\* the first image, whatever the index
imgAtFirst(is, j) == is[1]

\* imgs[i]: slices count from 0, sequences from 1
imgAt(is, j) == is[j + 1]

\* a paint handler that skips the events that are not External
SkippedInverted(external) == ~external

\* a paint handler that skips no event
SkippedNever(external) == FALSE

\* case paint.Event: if e.External { continue }
Skipped(external) == external

\* a right arrow that stops at the last image
RightIndexStop(j, n) == IF j = n - 1 THEN j ELSE j + 1

\* case key.CodeRightArrow: the new index among n images
RightIndex(j, n) == (IF j = n - 1 THEN -1 ELSE j) + 1

\* a left arrow without the wrap
LeftIndexNoWrap(j, n) == j - 1

\* a left arrow that stops at the first image
LeftIndexStop(j, n) == IF j = 0 THEN 0 ELSE j - 1

\* case key.CodeLeftArrow: the new index among n images
LeftIndex(j, n) == (IF j = 0 THEN n ELSE j) - 1

\* a drag that adds the new position without taking off the recorded one
DraggedAbsolute(o, m, pos) == Pt(o.X + pos.X, o.Y + pos.Y)

\* case mouse.DirNone with w.pan: w.orig after the move to pos, from the
\* offset o and the recorded position m
Dragged(o, m, pos) == Pt(o.X + pos.X - m.X, o.Y + pos.Y - m.Y)

\* case mouse.Event, for an event of direction dir and button button at (x, y)
MouseEvent(dir, button, x, y) ==
  /\ pc = "loop"
  /\ LET pos == Pt(ToInt(x), ToInt(y)) IN
       IF dir = "Press" /\ button = "Left"
       THEN /\ pan' = TRUE
            /\ mouse' = pos
            /\ ops' = <<>>
            /\ UNCHANGED <<orig, pending>>
       ELSE IF dir = "Release" /\ button = "Left"
       THEN /\ pan' = FALSE
            /\ mouse' = ZP
            /\ ops' = <<>>
            /\ UNCHANGED <<orig, pending>>
       ELSE IF dir = "None" /\ pan
       THEN /\ orig' = Dragged(orig, mouse, pos)
            /\ InRange(orig')
            /\ mouse' = pos
            /\ pending < MaxQueue
            /\ pending' = pending + 1
            /\ ops' = << <<"Send", "paint">> >>
            /\ UNCHANGED pan
       ELSE /\ ops' = <<>>
            /\ UNCHANGED <<orig, pan, mouse, pending>>
  /\ UNCHANGED <<flagVars, procVars, decodeVars, win, buf, liveBufs, i, shown>>

HandleMouse ==
  \E dir \in MouseDirs, button \in MouseButtons, x, y \in HalfPixels :
    MouseEvent(dir, button, x, y)

\* a repaint on the release and the repeat of the key as well
repaintAnyDirection(code, dir) == code \in {"RightArrow", "LeftArrow", "R"}

\* the value of repaint at the end of the key switch
repaint(code, dir) ==
  dir = "Press" /\ code \in {"RightArrow", "LeftArrow", "R"}

\* case key.Event, for a code that does not end the loop: the switch on
\* e.Code, then the paint event sent when repaint is set
KeyEvent(code, dir) ==
  /\ pc = "loop"
  /\   IF code = "RightArrow" /\ dir = "Press"
       THEN /\ i' = RightIndex(i, Len(imgs))
            /\ orig' = ZP
            /\ UNCHANGED win
       ELSE IF code = "LeftArrow" /\ dir = "Press"
       THEN /\ i' = LeftIndex(i, Len(imgs))
            /\ orig' = ZP
            /\ UNCHANGED win
       ELSE IF code = "Z" /\ dir = "Press"
       THEN /\ orig' = ZP
            /\ win' = [win EXCEPT !.size = Bounds(imgAt(imgs, i)).Max]
            /\ UNCHANGED i
       ELSE UNCHANGED <<i, orig, win>>
  /\ pending' = IF repaint(code, dir) THEN pending + 1 ELSE pending
  /\ pending' <= MaxQueue
  /\ ops' =
       (IF code = "Z" /\ dir = "Press"
        THEN << <<"Resize", Bounds(imgAt(imgs, i)).Max>> >> ELSE <<>>)
       \o (IF repaint(code, dir) THEN << <<"Send", "paint">> >> ELSE <<>>)
  /\ UNCHANGED <<flagVars, procVars, decodeVars, buf, liveBufs, pan, mouse,
                 shown>>

HandleKey == \E code \in KeyCodes, dir \in KeyDirs : KeyEvent(code, dir)

\* (*window).Release: the buffer, then the window; the result is the new
\* w.w and w.b, the number of live buffers and the calls made
Release(w, b, live) ==
  [win |-> [w EXCEPT !.released = @ + 1],
   buf |-> [b EXCEPT !.released = @ + 1],
   live |-> IF b.made /\ b.released = 0 THEN live - 1 ELSE live,
   ops |-> << <<"Release", "buffer">>, <<"Release", "window">> >>]

\* a key switch that leaves the loop on the press of the key only
QuitsOnPress(code, dir) == code \in QuitCodes /\ dir = "Press"

\* case key.CodeEscape, key.CodeQ: the case does not look at e.Direction
Quits(code, dir) == code \in QuitCodes

\* case key.CodeEscape, key.CodeQ: return; the deferred w.Release() runs, then
\* driver.Main and main() return and the deferred StopCPUProfile runs
QuitEvent(code, dir) ==
  /\ pc = "loop"
  /\ Quits(code, dir)
  /\ win' = Release(win, buf, liveBufs).win
  /\ buf' = Release(win, buf, liveBufs).buf
  /\ liveBufs' = Release(win, buf, liveBufs).live
  /\ ops' = Release(win, buf, liveBufs).ops
  /\ profiling' = FALSE
  /\ exitCode' = 0
  /\ pc' = "exit"
  /\ UNCHANGED <<flagVars, logged, decodeVars, orig, pan, mouse, i, pending,
                 shown>>

Quit == \E code \in QuitCodes, dir \in KeyDirs : QuitEvent(code, dir)

\* case paint.Event: one the loop sent to itself (sent), or one of the window
\* system, which may be marked External
PaintEvent(sent, external) ==
  /\ pc = "loop"
  /\   /\ sent => pending > 0 /\ ~external
       /\ pending' = IF sent THEN pending - 1 ELSE pending
       /\ IF Skipped(external)
          THEN /\ ops' = <<>>
               /\ UNCHANGED shown
          ELSE /\ ops' = display(imgAt(imgs, i), win, buf, orig)
               /\ shown' = imgAt(imgs, i)
  /\ UNCHANGED <<flagVars, procVars, decodeVars, win, buf, liveBufs, orig, pan,
                 mouse, i>>

HandlePaint == \E sent, external \in BOOLEAN : PaintEvent(sent, external)

\* case size.Event: the window has its new size sz; w.newBuffer(), which
\* succeeds (ok) or fails, then w.display(imgs[i])
SizeEvent(sz, ok) ==
  /\ pc = "loop"
  /\   LET nb == newBufferSize(buf, liveBufs, sz, ok) IN
       /\ win' = [win EXCEPT !.size = sz]
       /\ buf' = nb.buf
       /\ liveBufs' = nb.live
       /\ IF ok
          THEN /\ ops' = nb.ops \o display(imgAt(imgs, i), win', nb.buf, orig)
               /\ shown' = imgAt(imgs, i)
               /\ UNCHANGED <<pc, exitCode, logged>>
          ELSE /\ ops' = nb.ops
               /\ Fatal(<<"NewBuffer">>)
               /\ UNCHANGED shown
  /\ UNCHANGED <<flagVars, profiling, decodeVars, orig, pan, mouse, i, pending>>

HandleSize ==
  \E sz \in EnvSizes \cup {win.size}, ok \in BOOLEAN : SizeEvent(sz, ok)

\* case screen.UploadedEvent, case error, default; what the loop prints is
\* recorded with the calls of the step
OtherEvent(kind) ==
  /\ pc = "loop"
  /\ ops' = IF kind = "Uploaded" THEN <<>> ELSE << <<"Print", kind>> >>
  /\ UNCHANGED <<flagVars, procVars, decodeVars, win, buf, liveBufs, orig, pan,
                 mouse, i, pending, shown>>

HandleOther == \E kind \in {"Uploaded", "error", "other"} : OtherEvent(kind)

\* ----------------------------------------------------------- specifications

\* main() from init() to the entry of the event loop
Next ==
  \/ InitFlags
  \/ StartProfile
  \/ CheckArgs
  \/ FindFiles
  \/ Spawn
  \/ SpawnDone
  \/ \E k \in 1..Len(tasks) : TaskOpen(k)
  \/ \E k \in 1..Len(tasks) : TaskDecode(k)
  \/ Collect
  \/ CollectDone
  \/ OpenWindow
  \/ FirstDisplay

Spec == Init /\ [][Next]_vars

\* the steps of the main goroutine
MainStep ==
  \/ InitFlags \/ StartProfile \/ CheckArgs \/ FindFiles \/ Spawn \/ SpawnDone
  \/ Collect \/ CollectDone \/ OpenWindow \/ FirstDisplay

\* the steps of decode goroutine k
Task(k) == k \in DOMAIN tasks /\ (TaskOpen(k) \/ TaskDecode(k))

\* the largest number of files MaxArgs arguments expand to
MaxFiles == MaxArgs * Len(dirImages(PathD))

\* the Go scheduler: a goroutine that can run does run
FairSpec ==
  /\ Spec
  /\ WF_vars(MainStep)
  /\ \A k \in 1..MaxFiles : WF_vars(Task(k))

\* the view state and the window at the entry of the event loop
LoopEntry ==
  /\ pc = "loop"
  /\ exitCode = -1
  /\ Len(imgs) >= 1
  /\ \A k \in 1..Len(imgs) : imgs[k] \in Images
  /\ win = [made |-> TRUE, size |-> winSize, released |-> 0]
  /\ buf = [made |-> TRUE, released |-> 0]
  /\ liveBufs = 1
  /\ orig = ZP
  /\ pan = FALSE
  /\ mouse = ZP
  /\ i = 0
  /\ pending = 0
  /\ shown = imgs[1]
  /\ ops = << <<"Fill", "buffer bounds">> >> \o display(imgs[1], win, buf, orig)

\* the files that decode
GoodFiles == {PathA, PathDB}

\* n files that decode, the two files taking turns
GoodList(first, n) ==
  [k \in 1..n |-> IF k % 2 = 1 THEN first ELSE CHOOSE f \in GoodFiles : f # first]

\* the event loop, entered with 1..MaxImgs images
LoopInit ==
  /\ flagWidth = DefaultSize
  /\ flagHeight = DefaultSize
  /\ flagAutoResize \in BOOLEAN
  /\ flagStepIncrement = DefaultIncrement
  /\ flagProfile = "cpu.prof"
  /\ args \in {GoodList(first, n) : first \in GoodFiles, n \in 1..MaxImgs}
  /\ logged = {<<"Decoded", args[k]>> : k \in 1..Len(args)}
  /\ profiling = (flagProfile # "")
  /\ files = args
  /\ spawned = Len(args)
  /\ imgChans = [k \in 1..Len(args) |-> NewChan]
  /\ tasks = [k \in 1..Len(args) |-> "done"]
  /\ chanOps = {<<k, "send", k>> : k \in 1..Len(args)}
  /\ collected = Len(args)
  /\ names = [k \in 1..Len(args) |-> basename(args[k])]
  /\ imgs = [k \in 1..Len(args) |-> Decode(args[k])]
  /\ LoopEntry

LoopNext ==
  \/ HandleKey
  \/ HandleMouse
  \/ Quit
  \/ HandlePaint
  \/ HandleSize
  \/ HandleOther

LoopSpec == LoopInit /\ [][LoopNext]_vars

\* the event loop takes the events in the order of the queue: a paint event
\* the loop sent to its window is handed to the loop as long as it runs
FairLoopSpec == LoopSpec /\ WF_vars(PaintEvent(TRUE, FALSE))

\* every entry of the event loop from main() is an entry LoopSpec starts from
LoopEntryOK == pc = "loop" => LoopEntry

\* ------------------------------------------------------------------ claims

\* the file opens and decodes
Decodes(f) == OpenOk(f) /\ Decode(f) # "err"

\* decodeImages has returned
Returned == pc \in {"driver", "display", "loop"}

\* C1: when decodeImages returns, names and imgs hold one entry for each file
\* of the input list that opens and decodes, entry k of both belonging to the
\* k-th such file of the list, whatever the order the goroutines ran in.
C1_DecodeOrder ==
  Returned =>
    LET good == SelectSeq(files, Decodes) IN
    /\ Len(names) = Len(good)
    /\ Len(imgs) = Len(good)
    /\ \A k \in 1..Len(good) :
         names[k] = basename(good[k]) /\ imgs[k] = Decode(good[k])

\* three files, the second of which fails, decoded into two different images
C1_Witness ==
  /\ pc = "driver"
  /\ files = <<PathDB, PathDC, PathA>>
  /\ imgs = <<"imgB", "imgA">>

\* some character of the name is a dot
HasDot(name) == \E k \in 1..Len(name) : name[k] = "."

\* what one argument stands for in the file list
Expansion(a) ==
  IF Stat(a) = "err" THEN <<>>
  ELSE IF Stat(a) = "dir"
  THEN LET kept == SelectSeq(Readdirnames(a), HasDot)
       IN [k \in 1..Len(kept) |-> a \o <<kept[k]>>]
  ELSE <<a>>

RECURSIVE ExpandAll(_)
ExpandAll(as) ==
  IF as = <<>> THEN <<>>
  ELSE ExpandAll(SubSeq(as, 1, Len(as) - 1)) \o Expansion(as[Len(as)])

\* C3: the file list is the arguments in order, a directory replaced by its
\* entries whose name has an extension, each joined to the directory path, a
\* non-directory kept as it is, an argument that cannot be stat'ed dropped.
C3_FindFiles ==
  pc \in {"spawn", "collect", "driver", "display", "loop"} =>
    files = ExpandAll(args)

\* a directory followed by a file without extension
C3_Witness ==
  /\ pc = "spawn"
  /\ args = <<PathD, PathN>>
  /\ files = <<PathDB, PathDC, PathN>>

NoTaskStarted == spawned = 0 /\ \A k \in 1..Len(tasks) : tasks[k] = "none"

ZeroSize == flagWidth = 0 \/ flagHeight = 0
ProfileFailed == <<"os.Create", flagProfile>> \in logged
SizeMessage == <<"The width and height must be non-zero values.">>

\* C4, as stated: with no files or a zero width or height the program prints
\* usage and exits with a non-zero status, no decode task started and no
\* window created.
C4_Original ==
  (pc = "exit" /\ (ZeroSize \/ Len(args) = 0)) =>
    /\ <<"Usage">> \in logged
    /\ exitCode > 0
    /\ NoTaskStarted
    /\ ~win.made

\* C4, amended: with a zero width or height the program logs a fatal message,
\* without the usage, and exits with status 1; with a non-zero size, a profile
\* file that could be created (if asked for) and no files it prints usage and
\* exits with status 1; in both cases no decode task is started and no window
\* is created.
C4_Startup ==
  /\ (ZeroSize \/ Len(args) = 0) =>
       /\ pc \in {"init", "profile", "nargs", "exit"}
       /\ NoTaskStarted
       /\ ~win.made
  /\ (pc = "exit" /\ ZeroSize) =>
       /\ exitCode = 1
       /\ SizeMessage \in logged
       /\ <<"Usage">> \notin logged
  /\ (pc = "exit" /\ ~ZeroSize /\ Len(args) = 0 /\ ~ProfileFailed) =>
       /\ exitCode = 1
       /\ <<"Usage">> \in logged

\* the program has ended on a zero width, with files given
C4_Witness ==
  /\ pc = "exit"
  /\ flagWidth = 0
  /\ flagHeight # 0
  /\ Len(args) > 0
  /\ SizeMessage \in logged

\* the number of inputs that decode
NDecodable == Len(SelectSeq(findFiles(args), Decodes))

StartupFailed == ZeroSize \/ Len(args) = 0 \/ ProfileFailed
AllocFailed == <<"NewWindow">> \in logged \/ <<"NewBuffer">> \in logged
NoImagesMessage == <<"No images specified could be shown. Quitting...">>

\* every failure of a file is on stderr
FailuresLogged ==
  /\ \A k \in 1..Len(args) :
       Stat(args[k]) = "err" => <<"Can't access", args[k]>> \in logged
  /\ \A k \in 1..Len(files) :
       /\ ~OpenOk(files[k]) => <<"open", files[k]>> \in logged
       /\ (OpenOk(files[k]) /\ Decode(files[k]) = "err") =>
            <<"Could not decode", files[k]>> \in logged

\* C5, as stated: the program only aborts if zero images remain decodable or
\* if the creation of the window or of the buffer fails. The exits of C4 (a
\* zero width or height, no files) are left out, as the claim read next to C4
\* leaves them out; read without C4 it fails on those as well.
C5_Original ==
  (exitCode > 0 /\ ~ZeroSize /\ Len(args) > 0) =>
    (NDecodable = 0 \/ AllocFailed)

\* C5, amended: the program only aborts if a startup check fails (zero width
\* or height, no file argument, a profile file that cannot be created), if
\* zero images remain decodable or if the creation of the window or buffer
\* fails. Once the startup checks have passed, stat, open and decode failures
\* are logged and skipped, the program goes on to the event loop whenever one
\* input decodes and the allocations succeed, and with zero images it aborts
\* before any window is created.
C5_SkipAndAbort ==
  /\ exitCode \in {-1, 1}
  /\ exitCode = 1 => (StartupFailed \/ NDecodable = 0 \/ AllocFailed)
  /\ pc \notin {"exit", "loop"} => ENABLED Next
  /\ Returned => FailuresLogged
  /\ NDecodable = 0 => (pc \notin {"display", "loop"} /\ ~win.made)
  /\ (pc = "exit" /\ ~StartupFailed /\ NDecodable = 0) =>
       NoImagesMessage \in logged

\* the event loop entered after a stat failure and an open failure
C5_Witness ==
  /\ pc = "loop"
  /\ args = <<PathGone, PathD>>
  /\ <<"Can't access", PathGone>> \in logged
  /\ <<"open", PathDC>> \in logged
  /\ imgs = <<"imgB">>

\* C2: with n images a right arrow press moves the index from i to i + 1,
\* and from n - 1 to 0; a left arrow press moves it from i to i - 1, and from
\* 0 to n - 1.
C2_ArrowWrap ==
  [][/\ KeyEvent("RightArrow", "Press") =>
          i' = IF i = Len(imgs) - 1 THEN 0 ELSE i + 1
     /\ KeyEvent("LeftArrow", "Press") =>
          i' = IF i = 0 THEN Len(imgs) - 1 ELSE i - 1]_vars

\* an arrow press has just moved the index to the last of three images,
\* while the first image is still the one shown
C2_Witness ==
  /\ pc = "loop"
  /\ Len(imgs) = 3
  /\ i = 2
  /\ shown = imgs[1]
  /\ ops = << <<"Send", "paint">> >>

\* what was done on channel c
Reported(c) == {o \in chanOps : o[3] = c}

\* the safety part of C6
C6_Safety ==
  /\ \A k \in 1..Len(tasks) :
       Reported(k) =
         IF tasks[k] = "done"
         THEN {<<k, IF Decodes(files[k]) THEN "send" ELSE "close", k>>}
         ELSE {}
  /\ \A o \in chanOps : o[2] = "send" => o[3] <= collected
  /\ Returned =>
       /\ collected = Len(files)
       /\ \A k \in 1..Len(tasks) : tasks[k] = "done"

\* C6: each goroutine reports exactly once on its own channel (a send when
\* the file decoded, a close when it did not), a send completes only when the
\* main goroutine has come to that channel in input order, and under fair
\* scheduling decodeImages returns, with every goroutine finished.
C6_Protocol == []C6_Safety /\ ((pc = "spawn") ~> (pc = "driver"))

\* decodeImages has returned from four files, two sends and two closes done
C6_Witness ==
  /\ pc = "driver"
  /\ Len(files) = 4
  /\ chanOps = {<<1, "send", 1>>, <<2, "close", 2>>,
                <<3, "send", 3>>, <<4, "close", 4>>}

\* C8: a goroutine sends on or closes only its own channel, no channel sees
\* more than one send or close, a closed channel was closed by its goroutine
\* and never sent on, and no send on a closed channel or double close (a
\* panic, exit status 2) happens.
C8_OwnChannel ==
  /\ exitCode # 2
  /\ \A o \in chanOps : o[1] = o[3]
  /\ \A c \in 1..Len(imgChans) :
       /\ Cardinality(Reported(c)) <= 1
       /\ imgChans[c].closed => Reported(c) = {<<c, "close", c>>}

\* one channel sent on and another closed
C8_Witness ==
  /\ Len(tasks) = 2
  /\ chanOps = {<<1, "send", 1>>, <<2, "close", 2>>}

PanKeys == {"H", "J", "K", "L"}

\* C7: a press of a pan key (h, j, k, l) moves the pan offset by the
\* configured increment.
C7_PanKeys ==
  [][\A code \in PanKeys :
       KeyEvent(code, "Press") =>
         Abs(orig'.X - orig.X) + Abs(orig'.Y - orig.Y) = flagStepIncrement]_vars

\* C9: in the event loop the index is always one of 0 .. len(imgs) - 1, so
\* imgs[i] exists wherever the loop reads it.
C9_IndexInRange == i >= 0 /\ i < Len(imgs)

\* the loop at the last of three images
C9_Witness ==
  /\ pc = "loop"
  /\ Len(imgs) = 3
  /\ i = Len(imgs) - 1
  /\ pending = 0
  /\ shown = imgs[3]

\* the calls of the last step that draw into or upload a buffer
BufferUses == {k \in 1..Len(ops) : ops[k][1] \in {"Draw", "Upload"}}
Allocations == {k \in 1..Len(ops) : ops[k][1] = "NewBuffer"}

\* C10: in the event loop w.b is a live buffer and the only one; a size event
\* releases the previous buffer, once, right before it allocates the next one;
\* display never draws into or uploads a released buffer; and after Escape or
\* Q the buffer and the window have each been released exactly once and no
\* buffer is left.
C10_BufferLifecycle ==
  /\ pc = "loop" => (buf.made /\ buf.released = 0 /\ liveBufs = 1)
  /\ \A k \in Allocations : k > 1 /\ ops[k - 1] = <<"Release", 1>>
  /\ \A k \in BufferUses : ops[k][Len(ops[k])] = FALSE
  /\ exitCode = 0 =>
       /\ buf.released = 1
       /\ win.released = 1
       /\ liveBufs = 0

\* the loop after a size event that gave the window a new buffer
C10_Witness ==
  /\ pc = "loop"
  /\ Len(ops) = 6
  /\ ops[1] = <<"Release", 1>>
  /\ ops[2] = <<"NewBuffer", Pt(3, 3), TRUE>>
  /\ liveBufs = 1

\* the pan offset as seen from the recorded mouse position
Anchor(o, m) == Pt(o.X - m.X, o.Y - m.Y)

\* a left button press at pos starts a drag, records pos and leaves the pan
\* offset alone; a move to pos while the drag is on records pos and keeps
\* the anchor, that is, adds pos minus the recorded position to the offset
PressAndMove ==
  \A x, y \in HalfPixels :
    LET pos == Pt(ToInt(x), ToInt(y)) IN
    /\ \/ pan' /\ mouse' = pos /\ orig' = orig
       \/ ~MouseEvent("Press", "Left", x, y)
    /\ \/ ~pan
       \/ pan' /\ mouse' = pos /\ Anchor(orig', mouse') = Anchor(orig, mouse)
       \/ ~\E button \in MouseButtons : MouseEvent("None", button, x, y)

\* a left button release ends the drag
ReleaseEndsDrag ==
  \/ ~pan' /\ orig' = orig
  \/ ~\E x, y \in HalfPixels : MouseEvent("Release", "Left", x, y)

\* a move with no drag on, a press or a release of another button
NoDragNoPan ==
  \/ UNCHANGED <<orig, pan>>
  \/ /\ pan \/ ~\E x, y \in HalfPixels, button \in MouseButtons :
                   MouseEvent("None", button, x, y)
     /\ ~\E x, y \in HalfPixels, dir \in {"Press", "Release"} :
           MouseEvent(dir, "Right", x, y)

\* C11: a left button press starts a drag and records the position of the
\* mouse (the integer point made from the event) without moving the pan
\* offset; while the drag is on, a move to pos adds pos minus the recorded
\* position to the offset and records pos, so that offset minus recorded
\* position stays what it was at the press and after moves ending at pn the
\* offset is its value at the press plus pn - p0; a left button release ends
\* the drag; a move with no drag on, and a press or release of another
\* button, leave the offset and the drag flag as they are. Each part reads
\* "the step has this effect, or it is not a step of this event".
C11_MousePan ==
  [][PressAndMove /\ ReleaseEndsDrag /\ NoDragNoPan]_vars

\* a drag that began at (0, 0) has just moved to (1, 0): the offset, (0, 0)
\* at the press, is (1, 0)
C11_Witness ==
  /\ pc = "loop"
  /\ pan
  /\ mouse = Pt(1, 0)
  /\ orig = Pt(1, 0)
  /\ ops = << <<"Send", "paint">> >>

ArrowCodes == {"RightArrow", "LeftArrow"}

\* the step sends one paint event to the window, and nothing else
SendsPaint ==
  /\ pending' = pending + 1
  /\ ops' = << <<"Send", "paint">> >>

\* the step sends no paint event
SendsNoPaint ==
  /\ pending' = pending
  /\ \A k \in 1..Len(ops') : ops'[k][1] # "Send"

\* the index one place further, to the right (d = 1) or to the left (d = -1),
\* around the n images
OnePlace(d) == (i' - i - d) % Len(imgs) = 0

\* C12: a press of the right or the left arrow resets the pan offset to
\* (0, 0) and sends a paint request; a press of R sends a paint request and
\* leaves the index and the pan offset alone; a release of an arrow, of R or
\* of Z changes neither the index nor the pan offset and sends no paint
\* request, so that the press and the release of an arrow together move the
\* index by one place. Each part reads "the step has this effect, or it is
\* not a step of this event".
C12_KeyEffects ==
  [][/\ \/ orig' = ZP /\ SendsPaint /\ OnePlace(1)
        \/ ~KeyEvent("RightArrow", "Press")
     /\ \/ orig' = ZP /\ SendsPaint /\ OnePlace(-1)
        \/ ~KeyEvent("LeftArrow", "Press")
     /\ \/ UNCHANGED <<i, orig>> /\ SendsPaint
        \/ ~KeyEvent("R", "Press")
     /\ \/ UNCHANGED <<i, orig>> /\ SendsNoPaint
        \/ ~\E code \in ArrowCodes \cup {"R", "Z"} : KeyEvent(code, "Release")
    ]_vars

\* a right arrow press during a drag has just moved the index from the first
\* to the second of three images and reset the pan offset
C12_Witness ==
  /\ pc = "loop"
  /\ Len(imgs) = 3
  /\ i = 1
  /\ pan
  /\ mouse = Pt(1, 0)
  /\ orig = ZP
  /\ shown = imgs[1]
  /\ ops = << <<"Send", "paint">> >>

\* the image last passed to display is the one at the index
Matches == shown = imgs[i + 1]

\* with no paint event of the loop left in the queue, the image shown is the
\* one at the index
ConsumedMatches == (pc = "loop" /\ pending = 0) => Matches

\* the paint event of the loop, not External, shows the image at the index
PaintShows ==
  \/ Matches' /\ pending' = pending - 1
  \/ ~\E external \in BOOLEAN : PaintEvent(TRUE, external)

\* the calls of display(img) in a window of size sz with pan offset o, into
\* a buffer that is not released
Displays(img, sz, o) ==
  LET rect == Rect(0, 0, sz.X, sz.Y) IN
  << <<"Fill", rect>>,
     <<"Draw", img, FALSE>>,
     <<"Upload", o, IF In(Bounds(img), rect) THEN Bounds(img) ELSE rect, FALSE>>,
     <<"Publish">> >>

\* a size event whose buffer is allocated ends with the display of the image
\* at the index into that buffer
SizeShows ==
  \A sz \in EnvSizes \cup {win.size} :
    \/ /\ Matches'
       /\ buf' = [made |-> TRUE, released |-> 0]
       /\ ops' = << <<"Release", 1>>, <<"NewBuffer", sz, TRUE>> >>
                    \o Displays(imgs[i + 1], sz, orig)
    \/ ~SizeEvent(sz, TRUE)

\* C13: an arrow press puts a paint event of the loop (never External) in
\* the queue, the loop shows imgs[i] for the current i when it takes such an
\* event, so that with the queue consumed the image last passed to display
\* is imgs[i], and as the loop takes the events of its queue an image
\* other than imgs[i] does not stay shown unless the loop ends; likewise a
\* size event whose buffer is allocated ends with the display of imgs[i] into
\* that buffer.
C13_ShownFollowsIndex ==
  /\ []ConsumedMatches
  /\ [][PaintShows /\ SizeShows]_vars
  /\ (pc = "loop" /\ ~Matches) ~> (Matches \/ pc = "exit")

\* an arrow press moved the index to the second image and the paint event it
\* sent has been handled: the second image is shown
C13_Witness ==
  /\ pc = "loop"
  /\ i = 1
  /\ pending = 0
  /\ shown = imgs[2]
  /\ shown # imgs[1]
  /\ Len(ops) = 4
  /\ ops[2] = <<"Draw", imgs[2], FALSE>>

\* the size of an image: the width and the height of its bounds
SizeOf(img) == Pt(Dx(Bounds(img)), Dy(Bounds(img)))

\* C14: a press of Z asks the window for the size of the current image,
\* Dx by Dy of imgs[i].Bounds(), resets the pan offset to (0, 0) and leaves
\* the index alone.
C14_ResizeToImage ==
  [][\/ /\ ops' = << <<"Resize", SizeOf(imgs[i + 1])>> >>
        /\ orig' = ZP
        /\ i' = i
     \/ ~KeyEvent("Z", "Press")]_vars

\* the view state: the index, the pan offset, the drag and the image shown
view == <<i, orig, pan, mouse, shown>>

\* C15: an Escape or Q key event of any direction ends the event loop: the
\* loop takes it whenever it runs, the step leaves the view state as it is
\* and releases the buffer and the window, once each, and after it no event
\* is handled and nothing changes any more.
C15_QuitEndsLoop ==
  /\ [](pc = "loop" =>
         \A code \in QuitCodes, dir \in KeyDirs : ENABLED QuitEvent(code, dir))
  /\ [][\A code \in QuitCodes, dir \in KeyDirs :
          \/ /\ pc' = "exit"
             /\ UNCHANGED view
             /\ win'.released = 1 /\ buf'.released = 1 /\ liveBufs' = 0
             /\ ops' = << <<"Release", "buffer">>, <<"Release", "window">> >>
          \/ ~QuitEvent(code, dir)]_vars
  /\ [][pc # "exit"]_vars

\* the loop ended by Escape or Q during a drag, with the second image shown
\* and the pan offset of the drag kept
C15_Witness ==
  /\ pc = "exit"
  /\ exitCode = 0
  /\ i = 1
  /\ pan
  /\ orig = Pt(0, 1)
  /\ win.released = 1
  /\ ops = << <<"Release", "buffer">>, <<"Release", "window">> >>

\* C16: a paint event marked External makes no call of display and changes
\* no view state; a paint event that is not External makes exactly one
\* display, of imgs[i] for the current index, and changes neither the index
\* nor the pan offset nor the drag; an UploadedEvent and an error change no
\* view state.
C16_PaintEffects ==
  [][/\ \/ ops' = <<>> /\ UNCHANGED view
        \/ ~\E sent \in BOOLEAN : PaintEvent(sent, TRUE)
     /\ \/ /\ UNCHANGED <<i, orig, pan, mouse>>
           /\ Matches'
           /\ ops' = Displays(imgs[i + 1], win.size, orig)
        \/ ~\E sent \in BOOLEAN : PaintEvent(sent, FALSE)
     /\ \/ UNCHANGED view
        \/ ~\E kind \in {"Uploaded", "error"} : OtherEvent(kind)
    ]_vars

\* a paint event has displayed the second image at the pan offset of a drag
C16_Witness ==
  /\ pc = "loop"
  /\ i = 1
  /\ orig = Pt(1, 0)
  /\ pan
  /\ pending = 0
  /\ ops = Displays(imgs[2], win.size, Pt(1, 0))

\* the index after k right arrow presses, after k left arrow presses, from
\* index j among n images
RECURSIVE RightTimes(_, _, _)
RightTimes(j, n, k) ==
  IF k = 0 THEN j ELSE RightTimes(RightIndex(j, n), n, k - 1)

RECURSIVE LeftTimes(_, _, _)
LeftTimes(j, n, k) ==
  IF k = 0 THEN j ELSE LeftTimes(LeftIndex(j, n), n, k - 1)

\* C17: with the n >= 1 images of the loop and any index j of them, a right
\* arrow press followed by a left arrow press returns the index to j, so does
\* a left press followed by a right press, and so do n right presses in a
\* row and n left presses in a row.
C17_RoundTrips ==
  pc = "loop" =>
    LET n == Len(imgs) IN
    /\ n >= 1
    /\ \A j \in 0..(n - 1) :
         /\ LeftIndex(RightIndex(j, n), n) = j
         /\ RightIndex(LeftIndex(j, n), n) = j
         /\ RightTimes(j, n, n) = j
         /\ LeftTimes(j, n, n) = j

\* among three images the second one was shown at index 1, and an arrow
\* press has brought the index back to 0
C17_Witness ==
  /\ pc = "loop"
  /\ Len(imgs) = 3
  /\ i = 0
  /\ shown = imgs[2]
  /\ shown # imgs[1]
  /\ pending = 1
  /\ ops = << <<"Send", "paint">> >>

====
